---- MODULE Spec2Model ----
(***************************************************************************)
(* State-machine model of the memory-sphere physics (SphereSystem), the    *)
(* WebGL renderer's texture lifecycle (ThreeRenderer) and the developer    *)
(* time tracker (TimeTracker).                                             *)
(*                                                                         *)
(* Numbers.  The program computes in IEEE doubles; the model computes in   *)
(* fixed point.  Lengths and velocities are integers counting 1/Scale px,  *)
(* progress values and random() results count thousandths, angles count    *)
(* 1/AngleScale rad.  A product with a decimal constant (x * 0.05) is the  *)
(* integer product divided with truncation toward zero.                    *)
(***************************************************************************)
EXTENDS Integers, Sequences, FiniteSets, TLC

VARIABLES
    bodies,      \* SphereSystem.bodies: sequence of SphereBody records
    viewport,    \* SphereSystem.viewport
    elapsed,     \* SphereSystem.elapsed
    randomSeq,   \* the injected random(): the values it returns, cyclically
    rng,         \* how many values random() has returned so far (mod its period)
    calls,       \* number of non-step calls made so far (exploration bound)
    budget,      \* the exploration bounds of this behaviour
    lastOp,      \* history: name of the last operation
    lastId,      \* history: id argument of the last centerBody / releaseBody
    hist         \* history per body index: steps since centerBody / releaseBody

physVars == <<bodies, viewport, elapsed, randomSeq, rng, calls, budget, lastOp, lastId, hist>>

VARIABLES
    now,              \* the clock, in minutes
    config,           \* TimeTracker.config: inactivityTimeout in ms, and whether it is the default
    isTracking,       \* TimeTracker.isTracking
    watching,         \* the fs watchers are installed (TimeTracker.watchers is not empty)
    currentSession,   \* TimeTracker.currentSession, or NoSession
    inactivityTimer,  \* deadline of the pending inactivity timeout, or NoTimer
    file,             \* the JSON data file: readable or not, and its sessions array
    ending,           \* the endCurrentSession() invocations in flight, by caller
    stopPc,           \* where stop() is
    starts,           \* number of start() calls made so far (exploration bound)
    changes,          \* number of tracked file changes so far (exploration bound)
    sessionsStarted,  \* history: number of sessions opened
    ended,            \* history: ids of the sessions an endCurrentSession() completed for
    file0             \* history: the sessions array the file held at construction

trackVars == <<now, config, isTracking, watching, currentSession, inactivityTimer, file,
               ending, stopPc, starts, changes, sessionsStarted, ended, file0>>

VARIABLES
    renderers,        \* the ThreeRenderer instances created so far
    renderer,         \* the client's renderer variable: an index into renderers, or 0 for null
    disposed          \* the textures dispose() has been called on

rendVars == <<renderers, renderer, disposed>>

\* buildMemoryMedia(entry)
VARIABLES
    entry,        \* the journey entry's data
    manifest,     \* the manifest buildMemoryMedia returned
    built         \* buildMemoryMedia has returned

mediaVars == <<entry, manifest, built>>

\* TypewriterEngine
VARIABLES
    text,            \* config.text, a sequence of characters
    twConfig,        \* maxSvgs, svgDuration and timing.characterDelay in effect
    charStates,      \* charStates[i].step
    twStartTime,     \* this.startTime
    isAnimating,
    animationFrame,  \* a requestAnimationFrame(this.animate) callback is pending
    clock,           \* performance.now(), in ms
    containers,      \* what each .svg-container shows
    shown,           \* history: the sketches rendered for each character in this run
    runs             \* start() calls that began a run

typeVars == <<text, twConfig, charStates, twStartTime, isAnimating, animationFrame, clock,
              containers, shown, runs>>

\* the memory spheres client script
VARIABLES
    centerIdx,       \* id of the centered orb, NoCenter for null
    animating,       \* animationFrameId is set: an animate() frame is pending
    listeners,       \* click listeners initSpheres() has added to the container
    torn,            \* history: destroy() has run since the bodies were last set
    clientOp,        \* history: the last client handler that ran,
    clientArg,       \*   the orb it was about
    clientSeq,       \*   and how many clicks and resizes have run
    plan             \* what this behaviour explores, fixed at the start

clientVars == <<centerIdx, animating, listeners, torn, clientOp, clientArg, clientSeq,
                plan>>

vars == <<physVars, trackVars, rendVars, mediaVars, typeVars, clientVars>>

-----------------------------------------------------------------------------
(* Units and small helpers *)

Scale == 100 * 1000          \* length units per pixel
Milli == 10 * 100            \* progress / random units per 1.0
AngleScale == 10 * 1000      \* angle units per radian

Px(n) == n * Scale

\* JavaScript undefined for the optional numeric fields of SphereBody
undefined == 0 - 2000000000

Min(a, b) == IF a <= b THEN a ELSE b
Max(a, b) == IF a >= b THEN a ELSE b
Abs(a) == IF a >= 0 THEN a ELSE 0 - a

\* a * n / d for a, n >= 0 without leaving 32 bits
MulDivNat(a, n, d) == (a \div d) * n + ((a % d) * n) \div d
\* a * (n / d), truncated toward zero
Times(a, n, d) ==
    IF (a >= 0) = (n >= 0)
    THEN MulDivNat(Abs(a), Abs(n), d)
    ELSE 0 - MulDivNat(Abs(a), Abs(n), d)

\* a ?? b
Coalesce(a, b) == IF a = undefined THEN b ELSE a

-----------------------------------------------------------------------------
(* Math.PI, Math.cos, Math.sin in fixed point *)

Pi == 31416
HalfPi == Pi \div 2
TwoPi == 2 * Pi

\* angle reduced to (-Pi, Pi]
Reduce(a) ==
    LET m == a % TwoPi
    IN  IF m > Pi THEN m - TwoPi ELSE m

\* cos on [-Pi/2, Pi/2] by Bhaskara's rational approximation, in thousandths
CosCore(x) == (Pi * Pi - 4 * x * x) \div ((Pi * Pi + x * x) \div Milli)

Cos(a) ==
    LET x == Abs(Reduce(a))
    IN  IF x <= HalfPi THEN CosCore(x) ELSE 0 - CosCore(Pi - x)

Sin(a) == Cos(a - HalfPi)

-----------------------------------------------------------------------------
(* SphereSystem: pure parts of step(), centerBody(), releaseBody() *)

\* random() as the k-th value of the injected generator
Random(seq, k) == seq[(k % Len(seq)) + 1]

\* mutant: the phone viewport gets the desktop increment
BaseProgressStepDesktopOnly(vp) == 10

\* const baseProgressStep = this.viewport.width <= 640 ? 0.015 : 0.01
BaseProgressStep(vp) == IF vp.width <= Px(640) THEN 15 ELSE 10

\* mutant: the release easing advances as slowly as the centering
ReleaseProgressStepSlow == 12 - 2

\* the per-step increment of releaseProgress (0.012)
ReleaseProgressStep == 12

\* progress >= 0.999 ends the release easing
ReleaseDoneThreshold == 999

\* depth layers: 10 layers, 120 px apart
DepthLayer(n) == 0 - (n % 10) * Px(120)

\* the branch of step() for a centered body
StepCentered(body, vp) ==
    LET targetX == vp.width \div 2 + Px(20)
        targetY == vp.height \div 2
        progress == Min(Milli, Coalesce(body.centerProgress, 0) + BaseProgressStep(vp))
        startX == Coalesce(body.centerStartX, body.x)
        startY == Coalesce(body.centerStartY, body.y)
        maxRadius == Coalesce(body.centerMaxRadius, body.targetRadius)
        desiredRadius == body.originalRadius
                           + Times(maxRadius - body.originalRadius, progress, Milli)
    IN  [body EXCEPT !.centerProgress = progress,
                     !.centerStartX = startX,
                     !.centerStartY = startY,
                     !.x = startX + Times(targetX - startX, progress, Milli),
                     !.y = startY + Times(targetY - startY, progress, Milli),
                     !.vx = 0, !.vy = 0, !.ax = 0, !.ay = 0,
                     !.z = 0, !.targetZ = 0,
                     !.targetRadius = desiredRadius,
                     !.radius = desiredRadius]

\* the release easing at the head of updateSphere(); r counts random() calls
UpdateRelease(body, seq, r) ==
    LET progress == Min(Milli, Coalesce(body.releaseProgress, 0) + ReleaseProgressStep)
        startX == Coalesce(body.releaseStartX, body.x)
        startY == Coalesce(body.releaseStartY, body.y)
        startRadius == Coalesce(body.releaseStartRadius, body.radius)
        restX == Coalesce(body.releaseRestX, body.originalX)
        restY == Coalesce(body.releaseRestY, body.originalY)
        radius == startRadius + Times(body.originalRadius - startRadius, progress, Milli)
        eased == [body EXCEPT !.releaseProgress = progress,
                              !.releaseStartX = startX,
                              !.releaseStartY = startY,
                              !.releaseStartRadius = startRadius,
                              !.x = startX + Times(restX - startX, progress, Milli),
                              !.y = startY + Times(restY - startY, progress, Milli),
                              !.radius = radius,
                              !.targetRadius = radius]
    IN  IF progress >= ReleaseDoneThreshold
        THEN [b |-> [eased EXCEPT !.releaseProgress = undefined,
                                  !.releaseStartX = undefined,
                                  !.releaseStartY = undefined,
                                  !.releaseStartRadius = undefined,
                                  !.releaseRestX = undefined,
                                  !.releaseRestY = undefined,
                                  !.driftAngle = Times(Random(seq, r), TwoPi, Milli),
                                  !.driftSpeed = Px(2) \div 10
                                                   + Times(Random(seq, r + 1), Px(3) \div 10, Milli)],
              r |-> r + 2]
        ELSE [b |-> eased, r |-> r]

\* mutant: no soft boundary
SoftBoundaryOff(body, vp) == body

\* step 6 of the drift: the soft boundary
SoftBoundary(body, vp) ==
    IF ~body.isCentered /\ vp.width > 0 /\ vp.height > 0
    THEN LET margin == Max(Px(48), body.radius \div 2)
             minX == margin
             maxX == vp.width - margin
             minY == margin
             maxY == vp.height - margin
             bx == IF body.x < minX
                   THEN [body EXCEPT !.x = minX, !.driftAngle = 0]
                   ELSE IF body.x > maxX
                        THEN [body EXCEPT !.x = maxX, !.driftAngle = Pi]
                        ELSE body
         IN  IF bx.y < minY
             THEN [bx EXCEPT !.y = minY, !.driftAngle = HalfPi]
             ELSE IF bx.y > maxY
                  THEN [bx EXCEPT !.y = maxY, !.driftAngle = 0 - HalfPi]
                  ELSE bx
    ELSE body

\* the smooth drifting physics of updateSphere(); r counts random() calls
UpdateDrift(body, index, vp, seq, r) ==
    LET noAngle == body.driftAngle = undefined
        angle0 == IF noAngle THEN Times(Random(seq, r), TwoPi, Milli) ELSE body.driftAngle
        speed == IF noAngle
                 THEN Px(2) \div 10 + Times(Random(seq, r + 1), Px(3) \div 10, Milli)
                 ELSE body.driftSpeed
        r1 == IF noAngle THEN r + 2 ELSE r
        \* turnRate = 0.05 rad: (random() - 0.5) * 0.05
        angle == angle0 + Times(Random(seq, r1) - Milli \div 2, AngleScale \div 20, Milli)
        targetVx == Times(Cos(angle), speed, Milli)
        targetVy == Times(Sin(angle), speed, Milli)
        vx == body.vx + Times(targetVx - body.vx, 5, 100)
        vy == body.vy + Times(targetVy - body.vy, 5, 100)
        moved == [body EXCEPT !.driftAngle = angle,
                              !.driftSpeed = speed,
                              !.vx = vx, !.vy = vy,
                              !.x = body.x + vx,
                              !.y = body.y + vy]
    IN  [b |-> [SoftBoundary(moved, vp) EXCEPT !.targetZ = DepthLayer(index)],
         r |-> r1 + 1]

\* updateSphere(body, config, index)
UpdateSphere(body, index, vp, seq, r) ==
    IF ~body.isCentered /\ body.releaseProgress # undefined /\ body.releaseProgress < Milli
    THEN UpdateRelease(body, seq, r)
    ELSE UpdateDrift(body, index, vp, seq, r)

\* the radius and z interpolation that ends each loop iteration of step()
Interpolate(body) ==
    LET radiusDiff == body.targetRadius - body.radius
        radius == IF Abs(radiusDiff) < Px(2)
                  THEN body.targetRadius
                  ELSE body.radius + Times(radiusDiff, 3, 10)
        zDiff == body.targetZ - body.z
        z == IF Abs(zDiff) < Px(1) THEN body.targetZ ELSE body.z + Times(zDiff, 25, 100)
    IN  [body EXCEPT !.radius = radius, !.z = z]

\* mutant: the loop does not skip centered bodies in the drift update
StepBodyNoSkip(body, index, vp, seq, r) ==
    LET u == UpdateSphere(body, index, vp, seq, r)
    IN  [b |-> Interpolate(u.b), r |-> u.r]

\* one iteration of the loop of step(), for the body at 0-based position index
StepBody(body, index, vp, seq, r) ==
    IF body.isCentered
    THEN [b |-> Interpolate(StepCentered(body, vp)), r |-> r]
    ELSE LET u == UpdateSphere(body, index, vp, seq, r)
         IN  [b |-> Interpolate(u.b), r |-> u.r]

\* the loop of step() over bodies[i..], threading the random() count
RECURSIVE StepFrom(_, _, _, _, _)
StepFrom(bs, i, vp, seq, r) ==
    IF i > Len(bs)
    THEN [bs |-> bs, r |-> r]
    ELSE LET s == StepBody(bs[i], i - 1, vp, seq, r)
         IN  StepFrom([bs EXCEPT ![i] = s.b], i + 1, vp, seq, s.r)

\* two bodies whose circles overlap
Overlap(a, b) ==
    LET dx == (a.x - b.x) \div Scale
        dy == (a.y - b.y) \div Scale
        reach == (a.radius + b.radius) \div Scale
    IN  dx * dx + dy * dy < reach * reach

\* mutant: step() ends with a collision pass that pushes a non-centered body
\* one pixel away from every body it overlaps
StepBodiesWithCollisions(bs, vp, seq, r) ==
    LET s == StepFrom(bs, 1, vp, seq, r)
        Push(i) ==
            LET hits == {j \in 1..Len(s.bs) : j # i /\ Overlap(s.bs[i], s.bs[j])}
                right == Cardinality({j \in hits : s.bs[j].x <= s.bs[i].x})
                left == Cardinality({j \in hits : s.bs[j].x > s.bs[i].x})
            IN  IF s.bs[i].isCentered THEN s.bs[i]
                ELSE [s.bs[i] EXCEPT !.x = @ + Px(right) - Px(left)]
    IN  [bs |-> [i \in 1..Len(s.bs) |-> Push(i)], r |-> s.r]

\* step(): the bodies after the loop; no collision handling follows it
StepBodies(bs, vp, seq, r) == StepFrom(bs, 1, vp, seq, r)

\* this.bodies.find((b) => b.id === id): position of the first match, 0 if none
FindBody(bs, id) ==
    IF \E i \in 1..Len(bs) : bs[i].id = id
    THEN CHOOSE i \in 1..Len(bs) : bs[i].id = id /\ \A j \in 1..(i - 1) : bs[j].id # id
    ELSE 0

\* the radius centerBody() stores in centerMaxRadius
FullRadius(body, vp) ==
    LET isMobile == vp.width <= Px(640)
        isTablet == ~isMobile /\ vp.width <= Px(1024)
        byHeight == IF isMobile THEN Times(vp.height, 110, 100)
                    ELSE IF isTablet THEN Times(vp.height, 58, 10)
                    ELSE vp.height * 2
        byWidth == IF isMobile THEN Times(vp.width, 25, 10)
                   ELSE IF isTablet THEN vp.width * 5
                   ELSE Times(vp.width, 125, 100)
        maxDiameter == Min(byHeight, byWidth)
    IN  Max(Times(body.originalRadius, 15, 10), maxDiameter \div 2)

\* the body centerBody(id) leaves behind
CenteredBody(body, vp) ==
    [body EXCEPT !.isCentered = TRUE,
                 !.centerProgress = 0,
                 !.centerStartX = body.x,
                 !.centerStartY = body.y,
                 !.vx = 0, !.vy = 0, !.ax = 0, !.ay = 0,
                 !.z = 0,
                 !.centerMaxRadius = FullRadius(body, vp),
                 !.targetRadius = body.radius,
                 !.targetZ = 0]

\* mutant: centerBody() moves the centered body to the end of the array
BodiesAfterCenterToFront(bs, id, vp) ==
    LET i == FindBody(bs, id)
    IN  IF i = 0 THEN bs
        ELSE SubSeq(bs, 1, i - 1) \o SubSeq(bs, i + 1, Len(bs))
               \o << CenteredBody(bs[i], vp) >>

\* this.bodies after centerBody(id)
BodiesAfterCenter(bs, id, vp) ==
    LET i == FindBody(bs, id)
    IN  IF i = 0 THEN bs ELSE [bs EXCEPT ![i] = CenteredBody(bs[i], vp)]

\* the body releaseBody(id) leaves behind; it calls random() four times
ReleasedBody(body, seq, r) ==
    LET restOffsetX == Times(Px(60), Random(seq, r) - Milli \div 2, Milli)
        restOffsetY == Times(Px(60), Random(seq, r + 1) - Milli \div 2, Milli)
        angle == Times(Random(seq, r + 2), TwoPi, Milli)
        speed == Px(2) \div 10 + Times(Random(seq, r + 3), Px(3) \div 10, Milli)
    IN  [body EXCEPT !.isCentered = FALSE,
                     !.centerProgress = undefined,
                     !.centerMaxRadius = undefined,
                     !.centerStartX = undefined,
                     !.centerStartY = undefined,
                     !.releaseProgress = 0,
                     !.releaseStartX = body.x,
                     !.releaseStartY = body.y,
                     !.releaseStartRadius = body.radius,
                     !.releaseRestX = body.originalX + restOffsetX,
                     !.releaseRestY = body.originalY + restOffsetY,
                     !.targetRadius = body.originalRadius,
                     !.targetZ = DepthLayer(body.id),
                     !.z = DepthLayer(body.id),
                     !.driftAngle = angle,
                     !.driftSpeed = speed,
                     !.vx = Times(Cos(angle), speed, Milli),
                     !.vy = Times(Sin(angle), speed, Milli)]

-----------------------------------------------------------------------------
(* Inputs of the SphereSystem state machine *)

\* A behaviour is explored either as a long run (calls in the first frames, then
\* enough frames for a transition to complete) or as a short burst (calls between
\* any two frames).
MaxSteps == 104      \* long run: step() calls
MaxCalls == 2        \* long run: other SphereSystem calls
OpWindow == 1        \* long run: those calls are made before this many steps have run
BurstSteps == 2      \* short burst: step() calls
BurstCalls == 3      \* short burst: other SphereSystem calls

Budgets ==
    { [steps |-> MaxSteps, calls |-> MaxCalls, window |-> OpWindow],
      [steps |-> BurstSteps, calls |-> BurstCalls, window |-> BurstSteps + 1] }

\* createBody() of the physics test: a 40 px body whose original position is (200, 200)
CreateBody(id, x, y, vx, vy, isCentered, driftAngle) ==
    [id |-> id, x |-> x, y |-> y, vx |-> vx, vy |-> vy, ax |-> 0, ay |-> 0,
     radius |-> Px(40), targetRadius |-> Px(40), originalRadius |-> Px(40),
     originalX |-> Px(200), originalY |-> Px(200),
     isCentered |-> isCentered, z |-> 0, targetZ |-> 0,
     driftAngle |-> driftAngle, driftSpeed |-> Px(5) \div 10,
     centerProgress |-> undefined, centerMaxRadius |-> undefined,
     centerStartX |-> undefined, centerStartY |-> undefined,
     releaseProgress |-> undefined, releaseStartX |-> undefined,
     releaseStartY |-> undefined, releaseStartRadius |-> undefined,
     releaseRestX |-> undefined, releaseRestY |-> undefined]

\* the two bodies of 'skips centered bodies during updates and collisions'
CenteredAndMover ==
    << CreateBody(0, Px(200), Px(200), Px(5), Px(5), TRUE, 0),
       CreateBody(1, Px(230), Px(230), Px(2), Px(1), FALSE, 0) >>

\* the two overlapping bodies at rest of 'separates overlapping bodies to prevent
\* sticking', placed at x = ax and x = ax + 20, the first drifting toward angle
OverlappingAtRest(ax, angle) ==
    << CreateBody(0, ax, Px(100), 0, 0, FALSE, angle),
       CreateBody(1, ax + Px(20), Px(120), 0, 0, FALSE, 0) >>

BodyLists ==
    {CenteredAndMover}
      \cup {OverlappingAtRest(ax, angle) : ax \in {Px(48), Px(100)}, angle \in {0, Pi}}

\* a phone, a tablet and a desktop viewport (the desktop one is the tests')
Viewports ==
    { [width |-> Px(600), height |-> Px(400)],
      [width |-> Px(1000), height |-> Px(700)],
      [width |-> Px(1200), height |-> Px(800)] }

\* the injected random(): () => 0.5 of the tests, and a generator of period 3
RandomSeqs == { <<500>>, <<250, 0, 750>> }

BodyIds == {0, 1}

NoHist == [center |-> 0 - 1, release |-> 0 - 1, restX |-> 0, restY |-> 0]

-----------------------------------------------------------------------------
(* The SphereSystem state machine *)

PhysInit ==
    /\ bodies = << >>
    /\ viewport = [width |-> 0, height |-> 0]
    /\ elapsed = 0
    /\ randomSeq \in RandomSeqs
    /\ rng = 0
    /\ calls = 0
    /\ budget \in Budgets
    /\ lastOp = "new"
    /\ lastId = 0 - 1
    /\ hist = << >>

CanCall == calls < budget.calls /\ elapsed < budget.window

\* setBodies(bodies, viewport)
SetBodies(bs, vp) ==
    /\ CanCall
    /\ bodies' = bs
    /\ viewport' = vp
    /\ hist' = [i \in 1..Len(bs) |-> NoHist]
    /\ calls' = calls + 1
    /\ lastOp' = "setBodies"
    /\ UNCHANGED <<elapsed, randomSeq, rng, budget, lastId, trackVars, rendVars, mediaVars, typeVars, clientVars>>

\* updateViewport(viewport)
UpdateViewport(vp) ==
    /\ CanCall
    /\ viewport' = vp
    /\ hist' = IF vp = viewport THEN hist
               ELSE [i \in 1..Len(hist) |-> [hist[i] EXCEPT !.center = 0 - 1]]
    /\ calls' = calls + 1
    /\ lastOp' = "updateViewport"
    /\ UNCHANGED <<bodies, elapsed, randomSeq, rng, budget, lastId, trackVars, rendVars, mediaVars, typeVars, clientVars>>

\* setActiveLimit(limit): deprecated, does nothing
SetActiveLimit ==
    /\ CanCall
    /\ calls' = calls + 1
    /\ lastOp' = "setActiveLimit"
    /\ UNCHANGED <<bodies, viewport, elapsed, randomSeq, rng, budget, lastId, hist, trackVars, rendVars, mediaVars, typeVars, clientVars>>

\* step()
Step ==
    /\ elapsed < budget.steps
    /\ elapsed' = elapsed + 1
    /\ LET s == StepBodies(bodies, viewport, randomSeq, rng)
       IN  /\ bodies' = s.bs
           /\ rng' = s.r % Len(randomSeq)
    /\ hist' = [i \in 1..Len(hist) |->
                  [hist[i] EXCEPT
                     !.center = IF @ >= 0 THEN @ + 1 ELSE @,
                     !.release = IF @ >= 0 THEN @ + 1 ELSE @]]
    /\ lastOp' = "step"
    /\ UNCHANGED <<viewport, randomSeq, calls, budget, lastId, trackVars, rendVars, mediaVars, typeVars, clientVars>>

\* centerBody(id)
CenterBody(id) ==
    /\ CanCall
    /\ LET i == FindBody(bodies, id)
       IN  IF i = 0
           THEN UNCHANGED <<bodies, hist>>
           ELSE /\ bodies' = BodiesAfterCenter(bodies, id, viewport)
                /\ hist' = [hist EXCEPT ![i].center = 0, ![i].release = 0 - 1]
    /\ calls' = calls + 1
    /\ lastOp' = "centerBody"
    /\ lastId' = id
    /\ UNCHANGED <<viewport, elapsed, randomSeq, rng, budget, trackVars, rendVars, mediaVars, typeVars, clientVars>>

\* releaseBody(id)
ReleaseBody(id) ==
    /\ CanCall
    /\ LET i == FindBody(bodies, id)
       IN  IF i = 0
           THEN UNCHANGED <<bodies, hist, rng>>
           ELSE LET b == ReleasedBody(bodies[i], randomSeq, rng)
                IN  /\ bodies' = [bodies EXCEPT ![i] = b]
                    /\ rng' = (rng + 4) % Len(randomSeq)
                    /\ hist' = [hist EXCEPT ![i].center = 0 - 1,
                                            ![i].release = 0,
                                            ![i].restX = b.releaseRestX,
                                            ![i].restY = b.releaseRestY]
    /\ calls' = calls + 1
    /\ lastOp' = "releaseBody"
    /\ lastId' = id
    /\ UNCHANGED <<viewport, elapsed, randomSeq, budget, trackVars, rendVars, mediaVars, typeVars, clientVars>>

PhysNext ==
    \/ \E bs \in BodyLists, vp \in Viewports : SetBodies(bs, vp)
    \/ \E vp \in Viewports : UpdateViewport(vp)
    \/ SetActiveLimit
    \/ Step
    \/ \E id \in BodyIds : CenterBody(id)
    \/ \E id \in BodyIds : ReleaseBody(id)

-----------------------------------------------------------------------------
(* Claims about the SphereSystem *)

Indices == 1..Len(bodies)

FrameOps == {"step", "centerBody", "releaseBody", "updateViewport", "setActiveLimit"}

\* x after the drift moved it by the new velocity and the soft boundary clamped it
DriftedX(old, new) ==
    LET margin == Max(Px(48), old.radius \div 2)
        to == old.x + new.vx
    IN  IF viewport.width > 0 /\ viewport.height > 0
        THEN IF to < margin THEN margin
             ELSE IF to > viewport.width - margin THEN viewport.width - margin
             ELSE to
        ELSE to

\* C1: after centerBody(id), while the viewport is unchanged and the body is not
\* released, centerProgress is 0.01 (0.015 on a viewport at most 640 wide) times
\* the number of steps, capped at 1; it is 1 after 100 steps at the latest; and
\* whenever it is 1 the body is at (width/2 + 20, height/2) with radius
\* centerMaxRadius and zero velocity.
C1_Centering ==
    \A i \in Indices :
        LET b == bodies[i]
            n == hist[i].center
            inc == IF viewport.width <= Px(640) THEN 15 ELSE 10
        IN  n >= 0 =>
              /\ b.isCentered
              /\ b.centerProgress = Min(1000, n * inc)
              /\ (n >= 100 => b.centerProgress = 1000)
              /\ (b.centerProgress = 1000 =>
                    /\ b.x = viewport.width \div 2 + Px(20)
                    /\ b.y = viewport.height \div 2
                    /\ b.radius = b.centerMaxRadius
                    /\ b.vx = 0 /\ b.vy = 0)

\* C1 witness: on a desktop viewport a body has been stepped more than 100 times
\* since centerBody and rests at the centre target
C1_Witness ==
    \E i \in Indices :
        /\ hist[i].center > 100
        /\ viewport.width > Px(640)
        /\ bodies[i].centerProgress = 1000
        /\ bodies[i].x = viewport.width \div 2 + Px(20)
        /\ bodies[i].radius = bodies[i].centerMaxRadius

\* the state part of C2
C2_Eased(bs, h) ==
    \A i \in 1..Len(bs) :
        LET b == bs[i]
            n == h[i].release
        IN  n >= 0 =>
              /\ ~b.isCentered
              /\ (n < 84 =>
                    /\ b.releaseProgress = 12 * n
                    /\ b.releaseRestX = h[i].restX /\ b.releaseRestY = h[i].restY
                    /\ Abs(b.releaseRestX - b.originalX) <= Px(30)
                    /\ Abs(b.releaseRestY - b.originalY) <= Px(30))
              /\ (n = 84 => b.x = h[i].restX /\ b.y = h[i].restY)
              /\ (n >= 84 =>
                    /\ b.radius = b.originalRadius
                    /\ b.releaseProgress = undefined
                    /\ b.releaseStartX = undefined /\ b.releaseStartY = undefined
                    /\ b.releaseStartRadius = undefined
                    /\ b.releaseRestX = undefined /\ b.releaseRestY = undefined)

\* C2: after releaseBody(id), while the body is not centered again, releaseProgress
\* is 0.012 times the number of steps; the rest point is within 30 px of the
\* original position on each axis; the 84th step puts the body on the rest point
\* with its original radius and clears every release* field; and each later
\* step moves it by the drift (x advanced by the new vx, inside the soft boundary).
C2_Releasing ==
    [][ /\ C2_Eased(bodies', hist')
        /\ \A i \in Indices :
              (lastOp' = "step" /\ hist[i].release >= 84) =>
                  bodies'[i].x = DriftedX(bodies[i], bodies'[i]) ]_vars

\* C2 witness: a released body has finished its easing and has drifted since
C2_Witness ==
    \E i \in Indices :
        /\ lastOp = "step"
        /\ hist[i].release > 84
        /\ bodies[i].releaseProgress = undefined
        /\ bodies[i].radius = bodies[i].originalRadius

OverlappingPairAtRest(bs) ==
    /\ Len(bs) = 2
    /\ \A i \in 1..2 :
          /\ ~bs[i].isCentered
          /\ bs[i].vx = 0 /\ bs[i].vy = 0
          /\ bs[i].releaseProgress = undefined
    /\ Overlap(bs[1], bs[2])

Core(b) == <<b.x, b.y, b.vx, b.vy, b.radius, b.z>>

\* another body's position, velocity and radius replaced
Perturbed(b, d) ==
    [b EXCEPT !.x = @ + d.dx, !.y = @ + d.dy, !.vx = d.vx, !.vy = d.vy, !.radius = d.radius]

Perturbations ==
    { [dx |-> Px(7), dy |-> 0 - Px(9), vx |-> Px(3), vy |-> 0 - Px(3), radius |-> Px(300)],
      [dx |-> 0 - Px(400), dy |-> Px(150), vx |-> 0, vy |-> 0, radius |-> Px(1)] }

C6_BodiesFixed ==
    [][ lastOp' \in FrameOps =>
          /\ Len(bodies') = Len(bodies)
          /\ \A i \in Indices :
                /\ bodies'[i].id = bodies[i].id
                /\ bodies'[i].originalX = bodies[i].originalX
                /\ bodies'[i].originalY = bodies[i].originalY
                /\ bodies'[i].originalRadius = bodies[i].originalRadius ]_vars

\* C6 witness: the second body has been centered, released and stepped
C6_Witness ==
    /\ lastOp = "step"
    /\ calls = 3
    /\ Len(bodies) = 2
    /\ hist[2].release > 0
    /\ bodies[2].id = 1

-----------------------------------------------------------------------------
(* TimeTracker *)

MaxTime == 17        \* minutes of clock explored
MaxChanges == 2      \* tracked file changes explored
MaxStarts == 1       \* start() calls explored

MsPerMinute == 60 * 1000

\* DEFAULT_CONFIG.inactivityTimeout
DefaultInactivityTimeout == 15 * 60 * 1000

\* { ...DEFAULT_CONFIG, ...config }: the default, or a caller's two minutes
Configs ==
    { [inactivityTimeout |-> DefaultInactivityTimeout, isDefault |-> TRUE],
      [inactivityTimeout |-> 2 * MsPerMinute, isDefault |-> FALSE] }

NoSession == [sid |-> 0, startTime |-> 0 - 1, endTime |-> 0 - 1, duration |-> 0,
              lastChange |-> 0 - 1]
NoTimer == 0 - 1
NoTime == 0 - 1

\* a session logged by an earlier run of the tracker
EarlierSession == [sid |-> 0 - 1, startTime |-> 0, endTime |-> 0, duration |-> 0,
                   lastChange |-> 0]

Callers == {"timer", "stop"}

Idle == [pc |-> "idle", sid |-> 0, duration |-> 0, data |-> << >>]

\* an unhandled rejection of the timer callback ends the process
Alive == ending["timer"].pc # "threw"

TrackInit ==
    /\ now = 0
    /\ config \in Configs
    /\ isTracking = FALSE
    /\ watching = "no"
    /\ currentSession = NoSession
    /\ inactivityTimer = NoTimer
    /\ file \in { [ok |-> TRUE, sessions |-> << >>],
                  [ok |-> TRUE, sessions |-> << EarlierSession >>] }
    /\ ending = [c \in Callers |-> Idle]
    /\ stopPc = "idle"
    /\ starts = 0
    /\ changes = 0
    /\ sessionsStarted = 0
    /\ ended = {}
    /\ file0 = file.sessions

\* the tracker of a behaviour that is not about it
TrackUnused ==
    /\ now = 0
    /\ config = [inactivityTimeout |-> DefaultInactivityTimeout, isDefault |-> TRUE]
    /\ isTracking = FALSE
    /\ watching = "no"
    /\ currentSession = NoSession
    /\ inactivityTimer = NoTimer
    /\ file = [ok |-> TRUE, sessions |-> << >>]
    /\ ending = [c \in Callers |-> Idle]
    /\ stopPc = "idle"
    /\ starts = 0
    /\ changes = 0
    /\ sessionsStarted = 0
    /\ ended = {}
    /\ file0 = << >>

\* Math.floor((now.getTime() - sessionStart.getTime()) / 1000), times in minutes
DurationSeconds(from, to) == ((to - from) * MsPerMinute) \div 1000

\* endCurrentSession() up to its first await: the early return, or endTime and
\* duration set on the shared session object and loadData() begun
EnterEnd(c) ==
    IF currentSession = NoSession
    THEN /\ ending' = [ending EXCEPT ![c] = Idle]
         /\ UNCHANGED currentSession
    ELSE LET d == DurationSeconds(currentSession.startTime, now)
         IN  /\ currentSession' = [currentSession EXCEPT !.endTime = now, !.duration = d]
             /\ ending' = [ending EXCEPT ![c] = [pc |-> "loading", sid |-> currentSession.sid,
                                                 duration |-> d, data |-> << >>]]

\* start() up to await this.loadData(), called while no stop() is in flight
Start ==
    /\ Alive
    /\ starts < MaxStarts
    /\ ~isTracking
    /\ stopPc \in {"idle", "failed"}
    /\ watching # "starting"
    /\ isTracking' = TRUE
    /\ watching' = IF watching = "no" THEN "starting" ELSE watching
    /\ starts' = starts + 1
    /\ UNCHANGED <<now, config, currentSession, inactivityTimer, file, ending, stopPc,
                   changes, sessionsStarted, ended, file0, physVars, rendVars, mediaVars, typeVars, clientVars>>

\* start() after loadData(): the watchers are installed
StartWatch ==
    /\ Alive
    /\ watching = "starting"
    /\ watching' = "yes"
    /\ UNCHANGED <<now, config, isTracking, currentSession, inactivityTimer, file, ending,
                   stopPc, sessionsStarted, ended, file0, starts, changes, physVars, rendVars, mediaVars, typeVars, clientVars>>

\* a watcher reports a 'change' of a tracked file: handleFileActivity()
FileChange ==
    /\ Alive
    /\ changes < MaxChanges
    /\ watching = "yes"
    /\ changes' = changes + 1
    /\ inactivityTimer' = now + config.inactivityTimeout \div MsPerMinute
    /\ IF currentSession = NoSession
       THEN /\ currentSession' = [sid |-> sessionsStarted + 1, startTime |-> now,
                                  endTime |-> NoTime, duration |-> 0, lastChange |-> now]
            /\ sessionsStarted' = sessionsStarted + 1
       ELSE /\ currentSession' = [currentSession EXCEPT !.lastChange = now]
            /\ UNCHANGED sessionsStarted
    /\ UNCHANGED <<now, config, isTracking, watching, file, ending, stopPc, ended, file0,
                   starts, physVars, rendVars, mediaVars, typeVars, clientVars>>

\* no endCurrentSession() is in flight
Quiescent == \A c \in Callers : ending[c].pc = "idle"

TimerDue == inactivityTimer # NoTimer /\ now >= inactivityTimer /\ ending["timer"].pc = "idle"

\* the inactivity timeout fires: its callback calls endCurrentSession()
TimerFire ==
    /\ Alive
    /\ TimerDue
    /\ inactivityTimer' = NoTimer
    /\ EnterEnd("timer")
    /\ UNCHANGED <<now, config, isTracking, watching, file, stopPc, sessionsStarted, ended,
                   file0, starts, changes, physVars, rendVars, mediaVars, typeVars, clientVars>>

\* stop() up to await this.endCurrentSession()
Stop ==
    /\ Alive
    /\ isTracking
    /\ stopPc = "idle"
    /\ isTracking' = FALSE
    /\ EnterEnd("stop")
    /\ stopPc' = IF currentSession = NoSession THEN "closing" ELSE "ending"
    /\ UNCHANGED <<now, config, watching, inactivityTimer, file, sessionsStarted, ended,
                   file0, starts, changes, physVars, rendVars, mediaVars, typeVars, clientVars>>

\* loadData() resolves and endCurrentSession() runs on to saveData()'s writeFile:
\* an unreadable file gives fresh data; a null currentSession throws at
\* data.lastTracked = this.currentSession.endTime
ReadDone(c) ==
    /\ Alive
    /\ ending[c].pc = "loading"
    /\ LET data == IF file.ok THEN file.sessions ELSE << >>
       IN  IF currentSession = NoSession
           THEN /\ ending' = [ending EXCEPT ![c].pc = "threw"]
                /\ stopPc' = IF c = "stop" THEN "failed" ELSE stopPc
           ELSE /\ ending' = [ending EXCEPT ![c].pc = "writing",
                                            ![c].data = Append(data, currentSession)]
                /\ UNCHANGED stopPc
    /\ UNCHANGED <<now, config, isTracking, watching, currentSession, inactivityTimer, file,
                   sessionsStarted, ended, file0, starts, changes, physVars, rendVars, mediaVars, typeVars, clientVars>>

\* writeFile() opens the data file, which truncates it
Truncate(c) ==
    /\ Alive
    /\ ending[c].pc = "writing"
    /\ file' = [ok |-> FALSE, sessions |-> << >>]
    /\ ending' = [ending EXCEPT ![c].pc = "truncated"]
    /\ UNCHANGED <<now, config, isTracking, watching, currentSession, inactivityTimer, stopPc,
                   sessionsStarted, ended, file0, starts, changes, physVars, rendVars, mediaVars, typeVars, clientVars>>

\* writeFile() writes the JSON text
WriteData(c) ==
    /\ Alive
    /\ ending[c].pc = "truncated"
    /\ file' = [ok |-> TRUE, sessions |-> ending[c].data]
    /\ ending' = [ending EXCEPT ![c].pc = "written"]
    /\ UNCHANGED <<now, config, isTracking, watching, currentSession, inactivityTimer, stopPc,
                   sessionsStarted, ended, file0, starts, changes, physVars, rendVars, mediaVars, typeVars, clientVars>>

\* saveData() resolves: this.currentSession = null, and endCurrentSession() returns
FinishEnd(c) ==
    /\ Alive
    /\ ending[c].pc = "written"
    /\ currentSession' = NoSession
    /\ ended' = ended \cup {ending[c].sid}
    /\ ending' = [ending EXCEPT ![c] = Idle]
    /\ stopPc' = IF c = "stop" THEN "closing" ELSE stopPc
    /\ UNCHANGED <<now, config, isTracking, watching, inactivityTimer, file, sessionsStarted,
                   file0, starts, changes, physVars, rendVars, mediaVars, typeVars, clientVars>>

\* stop() after endCurrentSession(): the watchers are closed, the timer is cleared
StopClose ==
    /\ Alive
    /\ stopPc = "closing"
    /\ watching' = "no"
    /\ inactivityTimer' = NoTimer
    /\ stopPc' = "idle"
    /\ UNCHANGED <<now, config, isTracking, currentSession, file, ending, sessionsStarted,
                   ended, file0, starts, changes, physVars, rendVars, mediaVars, typeVars, clientVars>>

\* a minute passes, which no read or write of the data file takes; a timeout
\* that is due fires first
Tick ==
    /\ Alive
    /\ now < MaxTime
    /\ ~TimerDue
    /\ Quiescent
    /\ now' = now + 1
    /\ UNCHANGED <<config, isTracking, watching, currentSession, inactivityTimer, file, ending,
                   stopPc, sessionsStarted, ended, file0, starts, changes, physVars, rendVars, mediaVars, typeVars, clientVars>>

TrackNext ==
    \/ Start
    \/ StartWatch
    \/ FileChange
    \/ TimerFire
    \/ Stop
    \/ \E c \in Callers : ReadDone(c)
    \/ \E c \in Callers : Truncate(c)
    \/ \E c \in Callers : WriteData(c)
    \/ \E c \in Callers : FinishEnd(c)
    \/ StopClose
    \/ Tick

-----------------------------------------------------------------------------
(* Claims about the TimeTracker *)

Count(seq, sid) == Cardinality({k \in 1..Len(seq) : seq[k].sid = sid})

IsPrefix(a, b) == Len(a) <= Len(b) /\ \A k \in 1..Len(a) : b[k] = a[k]

\* C8 as stated: once no endCurrentSession() is in flight, every session that one
\* completed for is in the file's sessions array exactly once, after the
\* sessions the file already held, which are unchanged.
C8_AsStated ==
    (Quiescent /\ file.ok) =>
        /\ \A sid \in ended : Count(file.sessions, sid) = 1
        /\ IsPrefix(file0, file.sessions)

\* C9 as stated: a session is not left open once inactivityTimeout has passed
\* since the last tracked file change, and under the default configuration not
\* once 5 minutes have passed.
C9_AsStated ==
    (currentSession # NoSession /\ currentSession.endTime = NoTime /\ watching = "yes"
       /\ isTracking) =>
        /\ now - currentSession.lastChange <= config.inactivityTimeout \div MsPerMinute
        /\ config.isDefault => now - currentSession.lastChange <= 5

\* C10 as stated: the duration logged for a session holds no idle time: it is
\* less than the time from the session's first to its last tracked file change
\* plus one inactivity period, the idle time after which the tracker itself
\* takes the work to have stopped.
C10_AsStated ==
    file.ok =>
        \A k \in 1..Len(file.sessions) :
            LET e == file.sessions[k]
            IN  e.sid > 0 =>
                  e.duration < DurationSeconds(e.startTime, e.lastChange)
                                 + config.inactivityTimeout \div 1000

\* the inactivity timer's callback has ended the current session: endTime and
\* duration are set
EndedByInactivity ==
    /\ currentSession # NoSession
    /\ currentSession.endTime # NoTime
    /\ ending["timer"].pc # "idle"
    /\ ending["timer"].sid = currentSession.sid

\* C11 as stated: while the tracker is running, a tracked file change that comes
\* after the inactivity timer has ended the session opens a new session whose
\* startTime is the time of that change.
C11_AsStated ==
    [][ (isTracking /\ EndedByInactivity /\ changes' = changes + 1) =>
          /\ currentSession'.sid # currentSession.sid
          /\ currentSession'.startTime = now
          /\ currentSession'.endTime = NoTime ]_vars

-----------------------------------------------------------------------------
(* ThreeRenderer and the client's initSpheres() / destroy() *)

MaxRenderers == 2    \* initSpheres() calls explored
MediaCount == 2      \* media items (and bodies) of the page
MaxClientOps == 2    \* clicks and resizes explored on one page
ReloadOps == 1       \* clicks and resizes explored across navigations
MaxFrames == 1       \* animate() frames explored

\* centerIdx = null
NoCenter == 0 - 1

\* data-positions of the page: startX and startY in percent, size in px, for
\* the media item at index (counted from 0)
InitialPosition(index) == [startX |-> 30 + 30 * index, startY |-> 40 + 10 * index, size |-> 200]

\* getSizeScale(width), in hundredths
GetSizeScale(width) ==
    IF width <= Px(600) THEN 70 ELSE IF width <= Px(1024) THEN 95 ELSE 125

\* (source.size * sizeScale) / 2
ScaledRadius(source, vp) == Times(Px(source.size), GetSizeScale(vp.width), 100) \div 2

\* convertToBodies(viewport): one body per media item, id = index, placed by its
\* initial position; Math.random() gives vx, vy, driftAngle and driftSpeed
ConvertToBodies(vp, seq, r) ==
    [i \in 1..MediaCount |->
        LET source == InitialPosition(i - 1)
            x == Times(vp.width, source.startX, 100)
            y == Times(vp.height, source.startY, 100)
            radius == ScaledRadius(source, vp)
            k == r + 4 * (i - 1)
        IN  [CreateBody(i - 1, x, y,
                        Times(Px(6), Random(seq, k) - Milli \div 2, Milli),
                        Times(Px(6), Random(seq, k + 1) - Milli \div 2, Milli),
                        FALSE,
                        Times(Random(seq, k + 2), TwoPi, Milli))
               EXCEPT !.radius = radius, !.targetRadius = radius, !.originalRadius = radius,
                      !.originalX = x, !.originalY = y,
                      !.driftSpeed = Px(2) \div 10
                                       + Times(Random(seq, k + 3), Px(3) \div 10, Milli)]]

\* textures are named by the renderer and the media item they were loaded for;
\* item 0 names the overlay texture
NewRenderer ==
    [pc |-> "overlay", next |-> 1, mediaTextures |-> {}, created |-> {},
     overlayMap |-> FALSE, destroyed |-> FALSE, centeredIndex |-> NoCenter]

\* the client script as loaded: no renderer, nothing centered, no frame pending
ClientLoaded ==
    /\ renderers = << >>
    /\ renderer = 0
    /\ disposed = {}
    /\ centerIdx = NoCenter
    /\ animating = FALSE
    /\ listeners = 0
    /\ torn = FALSE
    /\ clientOp = "load"
    /\ clientArg = NoCenter
    /\ clientSeq = 0

\* what one behaviour explores: "overlap" is initSpheres() called again at any
\* moment; "page" is one page whose clicks, resizes, frames and destroy() come
\* at any moment of its loading; "reload" is navigation between pages whose
\* media loads, where astro:before-swap (destroy) precedes every
\* astro:page-load and the user acts on a page once it has loaded
InitsOf(p) == IF p = "page" THEN 1 ELSE MaxRenderers
OpsOf(p) == IF p = "page" THEN MaxClientOps ELSE IF p = "reload" THEN ReloadOps ELSE 0
FramesOf(p) == IF p = "page" THEN MaxFrames ELSE 0

\* every init() has returned and initSpheres() has resumed after it
Settled == \A q \in 1..Len(renderers) : renderers[q].pc = "running"

MayAct == plan = "reload" => Settled

MayFail == plan # "reload"

RendInit == ClientLoaded /\ plan = "overlap"

ClientInit == ClientLoaded /\ plan \in {"page", "reload"}

\* ThreeRenderer.destroy(): the tracked media textures and the overlay are disposed
Destroyed(r) ==
    [renderers[r] EXCEPT !.mediaTextures = {}, !.overlayMap = FALSE, !.destroyed = TRUE]

DisposedBy(r) ==
    {<<r, i>> : i \in renderers[r].mediaTextures}
      \cup (IF renderers[r].overlayMap THEN {<<r, 0>>} ELSE {})

\* initSpheres() up to await renderer.init(), on a page with media and a
\* container: destroy(), setBodies(convertToBodies(viewport), viewport), then a
\* new ThreeRenderer whose init() starts loading the overlay texture
InitSpheres(vp) ==
    /\ Len(renderers) < InitsOf(plan)
    /\ plan = "reload" => renderer = 0
    /\ MayAct
    /\ IF renderer = 0
       THEN /\ renderers' = Append(renderers, NewRenderer)
            /\ UNCHANGED disposed
       ELSE /\ renderers' = Append([renderers EXCEPT ![renderer] = Destroyed(renderer)],
                                   NewRenderer)
            /\ disposed' = disposed \cup DisposedBy(renderer)
    /\ renderer' = Len(renderers) + 1
    /\ centerIdx' = NoCenter
    /\ animating' = FALSE
    /\ bodies' = ConvertToBodies(vp, randomSeq, rng)
    /\ rng' = (rng + 4 * MediaCount) % Len(randomSeq)
    /\ viewport' = vp
    /\ torn' = FALSE
    /\ clientOp' = "initSpheres"
    /\ clientArg' = NoCenter
    /\ UNCHANGED <<elapsed, randomSeq, calls, budget, lastOp, lastId, hist, listeners,
                   clientSeq, plan, trackVars, mediaVars, typeVars>>

\* destroy() of the client, on astro:before-swap or beforeunload, or initSpheres()
\* on a page without spheres, which returns after destroy()
ClientDestroy ==
    /\ renderer # 0 \/ centerIdx # NoCenter \/ animating
    /\ MayAct
    /\ IF renderer = 0
       THEN UNCHANGED <<renderers, disposed>>
       ELSE /\ renderers' = [renderers EXCEPT ![renderer] = Destroyed(renderer)]
            /\ disposed' = disposed \cup DisposedBy(renderer)
    /\ renderer' = 0
    /\ centerIdx' = NoCenter
    /\ animating' = FALSE
    /\ torn' = TRUE
    /\ clientOp' = "destroy"
    /\ clientArg' = NoCenter
    /\ UNCHANGED <<listeners, clientSeq, plan, physVars, trackVars, mediaVars, typeVars>>

\* init(): loadOverlayTexture() settles; a failure is caught and logged
OverlaySettled(r, loaded) ==
    /\ renderers[r].pc = "overlay"
    /\ loaded \/ MayFail
    /\ renderers' = [renderers EXCEPT ![r].overlayMap = loaded,
                                      ![r].pc = IF MediaCount = 0 THEN "returned" ELSE "loading"]
    /\ UNCHANGED <<renderer, disposed, physVars, trackVars, mediaVars, typeVars, clientVars>>

\* init(): buildMediaTexture() of the next item settles; a loaded texture is
\* pushed on mediaTextures, a failed one skips the orb; after the last item
\* init() returns
TextureSettled(r, loaded) ==
    /\ renderers[r].pc = "loading"
    /\ loaded \/ MayFail
    /\ LET i == renderers[r].next
       IN  renderers' =
             [renderers EXCEPT
                ![r].created = IF loaded THEN @ \cup {i} ELSE @,
                ![r].mediaTextures = IF loaded THEN @ \cup {i} ELSE @,
                ![r].next = i + 1,
                ![r].pc = IF i >= MediaCount THEN "returned" ELSE "loading"]
    /\ UNCHANGED <<renderer, disposed, physVars, trackVars, mediaVars, typeVars, clientVars>>

RendNext ==
    \/ \E vp \in Viewports : InitSpheres(vp)
    \/ ClientDestroy
    \/ \E r \in 1..Len(renderers), loaded \in BOOLEAN : OverlaySettled(r, loaded)
    \/ \E r \in 1..Len(renderers), loaded \in BOOLEAN : TextureSettled(r, loaded)

\* C7 as stated: once destroy() has been called on a renderer and its init() has
\* returned, every media texture init() created has been disposed.
C7_AsStated ==
    \A r \in 1..Len(renderers) :
        (renderers[r].destroyed /\ renderers[r].pc = "returned") =>
            \A i \in renderers[r].created : <<r, i>> \in disposed

-----------------------------------------------------------------------------
(* The client's orb selection, resize and animation handlers *)

\* what the selection handlers read and write
ClientState == [centerIdx |-> centerIdx, bodies |-> bodies, rng |-> rng, renderers |-> renderers]

\* renderer?.setCenter(index)
SetCenter(rs, index) ==
    IF renderer = 0 THEN rs ELSE [rs EXCEPT ![renderer].centeredIndex = index]

\* renderer?.clearCenter(index)
ClearCenter(rs, index) ==
    IF renderer # 0 /\ rs[renderer].centeredIndex = index
    THEN [rs EXCEPT ![renderer].centeredIndex = NoCenter]
    ELSE rs

\* sphereSystem.releaseBody(id)
AfterReleaseBody(st, id) ==
    LET i == FindBody(st.bodies, id)
    IN  IF i = 0 THEN st
        ELSE [st EXCEPT !.bodies[i] = ReleasedBody(st.bodies[i], randomSeq, st.rng),
                        !.rng = (st.rng + 4) % Len(randomSeq)]

\* centerSphere(index)
CenterSphere(st, index) ==
    [st EXCEPT !.centerIdx = index,
               !.bodies = BodiesAfterCenter(st.bodies, index, viewport),
               !.renderers = SetCenter(st.renderers, index)]

\* mutant: releaseCenterSphere() forgets the body, as destroy() does
ReleaseCenterIdxOnly(st) == [st EXCEPT !.centerIdx = NoCenter]

\* releaseCenterSphere()
ReleaseCenterSphere(st) ==
    IF st.centerIdx = NoCenter THEN st
    ELSE [AfterReleaseBody(st, st.centerIdx)
            EXCEPT !.centerIdx = NoCenter,
                   !.renderers = ClearCenter(st.renderers, st.centerIdx)]

\* mutant: onSelect centers the clicked orb whatever is centered
OnSelectCenterOnly(st, idx) == CenterSphere(st, idx)

\* onSelect(idx) of initSpheres()
SelectResult(st, idx) ==
    IF st.centerIdx = idx THEN ReleaseCenterSphere(st)
    ELSE IF st.centerIdx # NoCenter THEN CenterSphere(ReleaseCenterSphere(st), idx)
    ELSE CenterSphere(st, idx)

\* the handler's writes
Becomes(st) ==
    /\ centerIdx' = st.centerIdx
    /\ bodies' = st.bodies
    /\ rng' = st.rng
    /\ renderers' = st.renderers

\* a click on the canvas of renderer r hits the orb made for media item i: its
\* onClick calls options.onSelect(orb.bodyId); destroy() removes neither the
\* canvas nor its listeners
OnSelect(r, i) ==
    /\ clientSeq < OpsOf(plan)
    /\ MayAct
    /\ i \in renderers[r].created
    /\ Becomes(SelectResult(ClientState, i - 1))
    /\ clientOp' = "select"
    /\ clientArg' = i - 1
    /\ clientSeq' = clientSeq + 1
    /\ UNCHANGED <<viewport, elapsed, randomSeq, calls, budget, lastOp, lastId, hist,
                   renderer, disposed, animating, listeners, torn, plan,
                   trackVars, mediaVars, typeVars>>

\* a click whose target is the container itself: every listener added after an
\* init() runs; the first releases, the others find centerIdx null
BackgroundClick ==
    /\ clientSeq < OpsOf(plan)
    /\ MayAct
    /\ listeners > 0
    /\ Becomes(ReleaseCenterSphere(ClientState))
    /\ clientOp' = "background"
    /\ clientArg' = NoCenter
    /\ clientSeq' = clientSeq + 1
    /\ UNCHANGED <<viewport, elapsed, randomSeq, calls, budget, lastOp, lastId, hist,
                   renderer, disposed, animating, listeners, torn, plan,
                   trackVars, mediaVars, typeVars>>

\* clamp(value, min, max)
Clamp(value, lo, hi) == Min(Max(value, lo), hi)

\* handleResize(): what it does to one body
Resized(body, vp) ==
    LET source == InitialPosition(body.id)
        ox == Times(vp.width, source.startX, 100)
        oy == Times(vp.height, source.startY, 100)
        moved == [body EXCEPT !.originalX = ox, !.originalY = oy,
                              !.originalRadius = ScaledRadius(source, vp)]
    IN  IF body.isCentered THEN moved
        ELSE [moved EXCEPT !.x = Clamp(ox, body.radius, vp.width - body.radius),
                           !.y = Clamp(oy, body.radius, vp.height - body.radius),
                           !.vx = 0, !.vy = 0, !.ax = 0, !.ay = 0,
                           !.releaseProgress = undefined,
                           !.releaseRestX = undefined,
                           !.releaseRestY = undefined,
                           !.targetRadius = moved.originalRadius]

\* the window's resize listener, which stays on after destroy()
HandleResize(vp) ==
    /\ clientSeq < OpsOf(plan)
    /\ MayAct
    /\ viewport' = vp
    /\ bodies' = [i \in 1..Len(bodies) |-> Resized(bodies[i], vp)]
    /\ clientOp' = "resize"
    /\ clientArg' = NoCenter
    /\ clientSeq' = clientSeq + 1
    /\ UNCHANGED <<elapsed, randomSeq, rng, calls, budget, lastOp, lastId, hist,
                   rendVars, centerIdx, animating, listeners, torn, plan,
                   trackVars, mediaVars, typeVars>>

\* initSpheres() after await renderer.init(): the container's click listener is
\* added and startAnimation() requests a frame, also when this renderer has
\* been destroyed in the meantime
InitResumed(r) ==
    /\ renderers[r].pc = "returned"
    /\ renderers' = [renderers EXCEPT ![r].pc = "running"]
    /\ listeners' = listeners + 1
    /\ animating' = TRUE
    /\ clientOp' = "resumed"
    /\ clientArg' = NoCenter
    /\ UNCHANGED <<renderer, disposed, centerIdx, torn, clientSeq, plan,
                   physVars, trackVars, mediaVars, typeVars>>

\* animate(): updateViewport(getViewport()), step(), renderer?.update(bodies,
\* centerIdx), and the next frame is requested
AnimateFrame ==
    /\ animating
    /\ elapsed < FramesOf(plan)
    /\ elapsed' = elapsed + 1
    /\ LET s == StepBodies(bodies, viewport, randomSeq, rng)
       IN  /\ bodies' = s.bs
           /\ rng' = s.r % Len(randomSeq)
    /\ renderers' = SetCenter(renderers, centerIdx)
    /\ clientOp' = "animate"
    /\ clientArg' = NoCenter
    /\ UNCHANGED <<viewport, randomSeq, calls, budget, lastOp, lastId, hist,
                   renderer, disposed, centerIdx, animating, listeners, torn, clientSeq, plan,
                   trackVars, mediaVars, typeVars>>

ClientNext ==
    \/ \E vp \in Viewports : InitSpheres(vp)
    \/ ClientDestroy
    \/ \E r \in 1..Len(renderers), loaded \in BOOLEAN : OverlaySettled(r, loaded)
    \/ \E r \in 1..Len(renderers), loaded \in BOOLEAN : TextureSettled(r, loaded)
    \/ \E r \in 1..Len(renderers) : InitResumed(r)
    \/ \E r \in 1..Len(renderers), i \in 1..MediaCount : OnSelect(r, i)
    \/ BackgroundClick
    \/ \E vp \in Viewports : HandleResize(vp)
    \/ AnimateFrame

\* the body with this id is centered as centerBody() leaves it
JustCentered(bs, id) ==
    \E i \in 1..Len(bs) :
        bs[i].id = id /\ bs[i].isCentered /\ bs[i].centerProgress = 0

\* the body with this id is released as releaseBody() leaves it
JustReleased(bs, id) ==
    \E i \in 1..Len(bs) :
        bs[i].id = id /\ ~bs[i].isCentered /\ bs[i].releaseProgress = 0

\* C16: a step that is onSelect(idx) leaves centerIdx null and the orb released
\* when idx was the centered orb; when another orb was centered it leaves that
\* orb released and idx centered; when none was centered it leaves idx
\* centered. A step that is a click on the container background releases the
\* centered orb and leaves centerIdx null, and changes neither centerIdx nor
\* the bodies nor the renderers when no orb was centered.
C16_SelectionProtocol ==
    [][ /\ (clientSeq' = clientSeq + 1 /\ clientOp' = "select") =>
              LET idx == clientArg'
              IN  /\ centerIdx = idx =>
                        centerIdx' = NoCenter /\ JustReleased(bodies', idx)
                  /\ (centerIdx # idx /\ centerIdx # NoCenter) =>
                        /\ centerIdx' = idx
                        /\ JustReleased(bodies', centerIdx)
                        /\ JustCentered(bodies', idx)
                  /\ centerIdx = NoCenter =>
                        centerIdx' = idx /\ JustCentered(bodies', idx)
        /\ (clientSeq' = clientSeq + 1 /\ clientOp' = "background") =>
              IF centerIdx # NoCenter
              THEN centerIdx' = NoCenter /\ JustReleased(bodies', centerIdx)
              ELSE UNCHANGED <<centerIdx, bodies, rng, renderers>> ]_vars

\* onSelect(idx) has just switched from another centered orb to idx
C16_Witness ==
    /\ clientOp = "select"
    /\ centerIdx = clientArg
    /\ JustCentered(bodies, clientArg)
    /\ \E id \in 0..(MediaCount - 1) : id # clientArg /\ JustReleased(bodies, id)

\* C17: as long as destroy() has not run since the bodies were set, at most
\* one body has isCentered = true, whatever orb selections, background clicks,
\* resizes and animation frames have run.
C17_AtMostOneCentered ==
    ~torn => Cardinality({i \in 1..Len(bodies) : bodies[i].isCentered}) <= 1

\* a frame has run after a switch: one orb is centered, another is on its way
\* back
C17_Witness ==
    /\ ~torn
    /\ clientOp = "animate"
    /\ \E i, j \in 1..Len(bodies) :
          /\ bodies[i].isCentered /\ bodies[i].id = centerIdx
          /\ ~bodies[j].isCentered /\ bodies[j].releaseProgress # undefined

\* C18 as stated: a body has isCentered = true exactly when its id equals
\* centerIdx.
C18_AsStated ==
    \A i \in 1..Len(bodies) : bodies[i].isCentered <=> bodies[i].id = centerIdx

-----------------------------------------------------------------------------
(* buildMemoryMedia *)

MaxGallery == 2      \* items of mediaGallery and of additionalMedia

\* an attachment has a publicUrl, an optimized image as src, or neither
SourceKinds == {"publicUrl", "image", "none"}

\* rawSrc = publicUrl || src; finalSrc = typeof rawSrc === 'object' ? rawSrc.src : rawSrc
\* the source names the attachment it belongs to; "" is no source
FinalSrc(item) ==
    IF item.kind = "publicUrl" THEN <<"/media", item.field, item.index>>
    ELSE IF item.kind = "image" THEN <<"/_astro", item.field, item.index>>
    ELSE << >>

Attachment(field, index, kind) ==
    [field |-> field, index |-> index, kind |-> kind, type |-> "video", alt |-> ""]

\* an optional array field: absent, or 0..MaxGallery items
Galleries(field) ==
    {[present |-> FALSE, items |-> << >>]}
      \cup UNION {{[present |-> TRUE,
                    items |-> [i \in 1..n |-> Attachment(field, i, kinds[i])]] :
                      kinds \in [1..n -> SourceKinds]} : n \in 0..MaxGallery}

\* data.media: absent, or an attachment whose type and alt may be missing
Medias ==
    {[present |-> FALSE, item |-> Attachment("media", 1, "none")]}
      \cup {[present |-> TRUE, item |-> [Attachment("media", 1, k) EXCEPT !.alt = a, !.type = ""]] :
                k \in SourceKinds, a \in {"", "alt"}}

Entries ==
    [title : {"title"}, media : Medias, mediaGallery : Galleries("mediaGallery"),
     additionalMedia : Galleries("additionalMedia")]

\* a || b on strings
OrElse(a, b) == IF a # "" THEN a ELSE b

\* the item pushed for an attachment
ManifestItem(item, caption, title) ==
    [src |-> FinalSrc(item), type |-> OrElse(item.type, "image"),
     alt |-> OrElse(item.alt, title), caption |-> OrElse(caption, OrElse(item.alt, title))]

\* data.additionalMedia || data.mediaGallery || []: an array, empty or not, is truthy
Gallery(data) ==
    IF data.additionalMedia.present THEN data.additionalMedia.items
    ELSE IF data.mediaGallery.present THEN data.mediaGallery.items
    ELSE << >>

\* the items of seq that have a source, in order
WithSource(seq) == SelectSeq(seq, LAMBDA item : FinalSrc(item) # << >>)

BuildManifest(data) ==
    LET first == IF data.media.present /\ FinalSrc(data.media.item) # << >>
                 THEN << ManifestItem(data.media.item, "", data.title) >>
                 ELSE << >>
        rest == WithSource(Gallery(data))
    IN  first \o [k \in 1..Len(rest) |-> ManifestItem(rest[k], "", data.title)]

MediaInit ==
    /\ entry \in Entries
    /\ manifest = << >>
    /\ built = FALSE

\* no entry is being built
MediaUnused ==
    /\ entry = [title |-> "title", media |-> [present |-> FALSE, item |-> Attachment("media", 1, "none")],
                mediaGallery |-> [present |-> FALSE, items |-> << >>],
                additionalMedia |-> [present |-> FALSE, items |-> << >>]]
    /\ manifest = << >>
    /\ built = FALSE

\* buildMemoryMedia(entry)
BuildMemoryMedia ==
    /\ ~built
    /\ manifest' = BuildManifest(entry)
    /\ built' = TRUE
    /\ UNCHANGED <<entry, physVars, trackVars, rendVars, typeVars, clientVars>>

MediaNext == BuildMemoryMedia

\* the attachments of the entry: media, mediaGallery and additionalMedia
Attachments(data) ==
    (IF data.media.present THEN {data.media.item} ELSE {})
      \cup {data.mediaGallery.items[k] : k \in 1..Len(data.mediaGallery.items)}
      \cup {data.additionalMedia.items[k] : k \in 1..Len(data.additionalMedia.items)}

\* C12 as stated: the manifest holds an item for every attachment of the entry's
\* media, mediaGallery and additionalMedia that has a source.
C12_AsStated ==
    built =>
        \A a \in Attachments(entry) :
            FinalSrc(a) # << >> =>
                \E k \in 1..Len(manifest) : manifest[k].src = FinalSrc(a)

-----------------------------------------------------------------------------
(* TypewriterEngine *)

MaxClock == 1500     \* ms of performance.now() explored
MaxRuns == 2         \* start() calls that begin a run

\* ms between one animation frame and the next
FrameGaps == {50, 100, 300}

Texts == { <<"H", "i">>, <<"a", " ", "b">> }

\* stepConfig absent (defaultMaxSvgs 2, defaultSvgDuration 250) or given;
\* timing.characterDelay given or 0
TwConfigs ==
    { [maxSvgs |-> 2, svgDuration |-> 250, characterDelay |-> 0],
      [maxSvgs |-> 2, svgDuration |-> 250, characterDelay |-> 150],
      [maxSvgs |-> 3, svgDuration |-> 100, characterDelay |-> 50],
      [maxSvgs |-> 1, svgDuration |-> 100, characterDelay |-> 300] }

Empty == [kind |-> "empty", n |-> 0]
Sketch(k) == [kind |-> "svg", n |-> k]
FinalText == [kind |-> "text", n |-> 0]

Chars == 1..Len(text)

\* this.config.timing.characterDelay || 100
CharDelay(cfg) == IF cfg.characterDelay # 0 THEN cfg.characterDelay ELSE 100

\* charStartTime = index * charDelay, index counted from 0
CharStartTimeAtOnce(i, cfg) == 0 * i

CharStartTime(i, cfg) == (i - 1) * CharDelay(cfg)

\* Math.floor(timeSinceStart / svgDuration) + 1, capped at the text reveal step
TargetStep(timeSinceStart, cfg) ==
    LET raw == (timeSinceStart \div cfg.svgDuration) + 1
    IN  IF raw > cfg.maxSvgs + 1 THEN cfg.maxSvgs + 1 ELSE raw

\* the step that marks a character complete
DoneStepBeyond(cfg) == cfg.maxSvgs + 3

DoneStep(cfg) == cfg.maxSvgs + 2

\* animate(): the forEach callback for the container of character i, whose state,
\* container content and sketch history are st
AnimateChar(st, i, sinceStart) ==
    IF st.step > twConfig.maxSvgs + 1 THEN st
    ELSE IF sinceStart < CharStartTime(i, twConfig) THEN st
    ELSE LET targetStep == TargetStep(sinceStart - CharStartTime(i, twConfig), twConfig)
         IN  IF targetStep > st.step
             THEN IF targetStep <= twConfig.maxSvgs /\ text[i] # " "
                  THEN [step |-> targetStep, shows |-> Sketch(targetStep),
                        sketches |-> Append(st.sketches, targetStep)]
                  ELSE [step |-> DoneStep(twConfig), shows |-> FinalText,
                        sketches |-> st.sketches]
             ELSE st

\* animate(timestamp) while isAnimating, on the characters' states sts
Animate(sts, sinceStart) ==
    LET after == [i \in Chars |-> AnimateChar(sts[i], i, sinceStart)]
        allComplete == \A i \in Chars : after[i].step > twConfig.maxSvgs + 1
    IN  /\ charStates' = [i \in Chars |-> after[i].step]
        /\ containers' = [i \in Chars |-> after[i].shows]
        /\ shown' = [i \in Chars |-> after[i].sketches]
        /\ animationFrame' = ~allComplete
        /\ isAnimating' = ~allComplete

\* the characters as the last frame left them
Current == [i \in Chars |-> [step |-> charStates[i], shows |-> containers[i],
                             sketches |-> shown[i]]]

\* resetState() and the containers emptied by start()
Reset == [i \in Chars |-> [step |-> 0, shows |-> Empty, sketches |-> << >>]]

TypeInit ==
    /\ text \in Texts
    /\ twConfig \in TwConfigs
    /\ charStates = [i \in 1..Len(text) |-> 0]
    /\ twStartTime = 0
    /\ isAnimating = FALSE
    /\ animationFrame = FALSE
    /\ clock = 0
    /\ containers = [i \in 1..Len(text) |-> Empty]
    /\ shown = [i \in 1..Len(text) |-> << >>]
    /\ runs = 0

\* no typewriter on the page
TypeUnused ==
    /\ text = << >>
    /\ twConfig = [maxSvgs |-> 2, svgDuration |-> 250, characterDelay |-> 0]
    /\ charStates = << >>
    /\ twStartTime = 0
    /\ isAnimating = FALSE
    /\ animationFrame = FALSE
    /\ clock = 0
    /\ containers = << >>
    /\ shown = << >>
    /\ runs = 0

\* start(): resetState(), the containers are emptied, and animate(this.startTime)
\* runs at once with elapsed time 0
TwStart ==
    /\ ~isAnimating
    /\ runs < MaxRuns
    /\ runs' = runs + 1
    /\ twStartTime' = clock
    /\ Animate(Reset, 0)
    /\ UNCHANGED <<text, twConfig, clock, physVars, trackVars, rendVars, mediaVars, clientVars>>

\* the pending animation frame fires gap ms after the last: animate(timestamp)
TwFrame(gap) ==
    /\ animationFrame
    /\ isAnimating
    /\ clock + gap <= MaxClock
    /\ clock' = clock + gap
    /\ Animate(Current, clock' - twStartTime)
    /\ UNCHANGED <<text, twConfig, twStartTime, runs, physVars, trackVars, rendVars, mediaVars, clientVars>>

\* time passes while no run is on
TwIdle(gap) ==
    /\ ~isAnimating
    /\ clock + gap <= MaxClock
    /\ clock' = clock + gap
    /\ UNCHANGED <<text, twConfig, charStates, twStartTime, isAnimating, animationFrame,
                   containers, shown, runs, physVars, trackVars, rendVars, mediaVars, clientVars>>

\* stop(): the pending frame is cancelled and every container gets its final text
TwStop ==
    /\ isAnimating
    /\ isAnimating' = FALSE
    /\ animationFrame' = FALSE
    /\ containers' = [i \in Chars |-> FinalText]
    /\ UNCHANGED <<text, twConfig, charStates, twStartTime, clock, shown, runs,
                   physVars, trackVars, rendVars, mediaVars, clientVars>>

TypeNext ==
    \/ TwStart
    \/ \E gap \in FrameGaps : TwFrame(gap)
    \/ \E gap \in FrameGaps : TwIdle(gap)
    \/ TwStop

-----------------------------------------------------------------------------
(* Claims about the TypewriterEngine *)

\* sketch 1, then sketch 2, ... up to sketch n
AllSketches(n) == [k \in 1..n |-> k]

\* C13 as stated: a non-space character whose text has been revealed by the
\* animation was shown sketch 1, then sketch 2, and so on up to sketch maxSvgs
\* before, none skipped, whatever the frame timestamps were.
C13_AsStated ==
    \A i \in Chars :
        (text[i] # " " /\ charStates[i] > twConfig.maxSvgs + 1) =>
            shown[i] = AllSketches(twConfig.maxSvgs)

\* C14: during a run, while the time elapsed at the last frame is less than
\* i * characterDelay, the character at index i (counted from 0) is at step 0
\* and its container is empty.
C14_WaitsForStart ==
    \A i \in Chars :
        (isAnimating /\ clock - twStartTime < (i - 1) * twConfig.characterDelay) =>
            /\ charStates[i] = 0
            /\ containers[i] = Empty

\* C14 witness: a frame after the first has run, the first character is past
\* its first step and a later character is still before its start time
C14_Witness ==
    /\ isAnimating
    /\ clock > twStartTime
    /\ charStates[1] >= 2
    /\ \E i \in Chars :
          /\ clock - twStartTime < (i - 1) * twConfig.characterDelay
          /\ charStates[i] = 0

\* C15: every character's step is in 0..maxSvgs+2 at all times, and a step
\* gets smaller only in a start() that begins a run.
C15_StepRange ==
    [][ \A i \in Chars :
          /\ charStates[i] \in 0..(twConfig.maxSvgs + 2)
          /\ charStates'[i] \in 0..(twConfig.maxSvgs + 2)
          /\ charStates'[i] < charStates[i] => runs' = runs + 1 ]_vars

\* C15 witness: in a second run one character is complete, at maxSvgs + 2, and
\* another is showing a sketch
C15_Witness ==
    /\ runs = 2
    /\ isAnimating
    /\ \E i, j \in Chars :
          /\ charStates[i] = twConfig.maxSvgs + 2
          /\ charStates[j] \in 1..twConfig.maxSvgs

-----------------------------------------------------------------------------
(* Specifications *)

\* the parts a behaviour is not about stay as constructed
PhysUnused ==
    /\ bodies = << >>
    /\ viewport = [width |-> 0, height |-> 0]
    /\ elapsed = 0
    /\ randomSeq = <<500>>
    /\ rng = 0
    /\ calls = 0
    /\ budget = [steps |-> 0, calls |-> 0, window |-> 0]
    /\ lastOp = "new"
    /\ lastId = 0 - 1
    /\ hist = << >>

\* a SphereSystem as constructed and handed its bodies
InitPhysics == PhysInit /\ TrackUnused /\ RendInit /\ MediaUnused /\ TypeUnused

SpecPhysics == InitPhysics /\ [][PhysNext]_vars

\* a TimeTracker as constructed
InitTracker == TrackInit /\ PhysUnused /\ RendInit /\ MediaUnused /\ TypeUnused

SpecTracker == InitTracker /\ [][TrackNext]_vars

\* the client script as loaded
InitRenderer == RendInit /\ PhysUnused /\ TrackUnused /\ MediaUnused /\ TypeUnused

SpecRenderer == InitRenderer /\ [][RendNext]_vars

\* an entry handed to buildMemoryMedia
InitMedia == MediaInit /\ PhysUnused /\ TrackUnused /\ RendInit /\ TypeUnused

SpecMedia == InitMedia /\ [][MediaNext]_vars

\* a TypewriterEngine as constructed
InitTypewriter == TypeInit /\ PhysUnused /\ TrackUnused /\ RendInit /\ MediaUnused

SpecTypewriter == InitTypewriter /\ [][TypeNext]_vars

\* the client script as loaded, its SphereSystem as constructed
InitClient == ClientInit /\ PhysUnused /\ TrackUnused /\ MediaUnused /\ TypeUnused

SpecClient == InitClient /\ [][ClientNext]_vars

====
